---- MODULE Spec2Model ----
(***************************************************************************)
(* A model of the DriverManager registry of gmsewell6/drivers.             *)
(*                                                                         *)
(* The registry keeps validated drivers in a plain JavaScript object       *)
(* (this.drivers), validates them against a joi schema, and can synthesize *)
(* a 'missing' stand-in driver for absent ids.  The model keeps the        *)
(* JavaScript object semantics of the store (own properties in insertion   *)
(* order, the prototype link, inherited Object.prototype members), the     *)
(* schema flags the constructor reads, and the objects the generator and   *)
(* lodash mutate in place.                                                 *)
(***************************************************************************)
EXTENDS Integers, Sequences, FiniteSets, TLC

VARIABLES
    schemaName,     \* which schema the constructor was given
    fnOverlayTpl,   \* this.fnOverlayTpl: field name -> "sync" | "async"
    drivers,        \* this.drivers: [own, proto]
    gen,            \* the configured 'missing' generator: [kind, shared]
    last,           \* the call the caller is looking at: its arguments, result,
                    \* emitted notifications and hook calls (Idle between calls)
    jobs,           \* the promise jobs queued by calls of async functions
    host            \* what the host application plugged in: the hook methods
                    \* a subclass overrides and the listener it registered

vars == <<schemaName, fnOverlayTpl, drivers, gen, last, jobs, host>>

(***************************************************************************)
(* Bounds                                                                  *)
(***************************************************************************)
MaxDrivers == 2     \* own properties of the store
MaxJobs == 1        \* promise jobs waiting to run

(***************************************************************************)
(* JavaScript values.  Every property value is a record [t, a, b]; an      *)
(* object is a function from property names to such values.                *)
(***************************************************************************)
NoObj == [k \in {} |-> ""]

Str(s) == [t |-> "string", a |-> s, b |-> ""]

\* a function written by the host: a schema default or a generator override
UserFn(kind, label, field) == [t |-> kind, a |-> label, b |-> field]

Has(o, k) == k \in DOMAIN o

Put(o, k, v) == [x \in (DOMAIN o) \cup {k} |-> IF x = k THEN v ELSE o[x]]

IsFunctionValue(v) == v.t \in {"sync", "async", "standinSync", "standinAsync", "notImplSync"}

(***************************************************************************)
(* Stand-in functions                                                      *)
(***************************************************************************)
notImplemented(driverId, fnName) ==
    "Cannot call " \o fnName \o "() - driver '" \o driverId \o "' is missing"

\* makeAsync(makeError)(val) with makeError = notImplemented(_, key)
makeAsync(key, val) == [t |-> "standinAsync", a |-> key, b |-> val]

\* makeSync(makeError)(val) with makeError = notImplemented(_, key)
makeSync(key, val) == [t |-> "standinSync", a |-> key, b |-> val]

\* What calling a function value does: how it ends and with which message.
Invoke(v) ==
    CASE v.t = "standinSync"  -> [how |-> "throws", msg |-> notImplemented(v.b, v.a)]
      [] v.t = "standinAsync" -> [how |-> "rejects", msg |-> notImplemented(v.b, v.a)]
      [] v.t = "notImplSync"  -> [how |-> "throws", msg |-> notImplemented(v.b, v.a)]
      [] v.t = "sync"         -> [how |-> IF v.a = "custom" THEN "throws" ELSE "returns",
                                  msg |-> IF v.a = "custom" THEN "My custom error" ELSE ""]
      [] v.t = "async"        -> [how |-> "resolves", msg |-> ""]
      [] OTHER                -> [how |-> "throws", msg |-> "TypeError: not a function"]

(***************************************************************************)
(* Schemas: a compiled joi object schema is its ordered children, each     *)
(* with the flags the constructor and joi.validate read.                   *)
(***************************************************************************)
Field(key, type, presence, default, tags) ==
    [key |-> key, type |-> type, presence |-> presence, default |-> default, tags |-> tags]

\* test/module-spec.js, 'missing driver' suite
SchemaFull ==
    << Field("id", "string", "required", "none", {}),
       Field("name", "string", "required", "none", {}),
       Field("syncFn", "func", "optional", "sync", {}),
       Field("asyncFn", "func", "optional", "async", {}),
       Field("requiredSyncFn", "func", "required", "none", {}),
       Field("requiredAsyncFn", "func", "required", "none", {"async"}),
       Field("optionalSyncFn", "func", "optional", "none", {}),
       Field("optionalAsyncFn", "func", "optional", "none", {"async"}),
       Field("taggedAsyncFn", "func", "optional", "sync", {"async"}),
       Field("expandFn", "func", "forbidden", "sync", {}) >>

\* test/module-spec.js, the schema "simple enough" for missing = true
SchemaSimple ==
    << Field("foo", "string", "optional", "none", {}),
       Field("bar", "number", "optional", "none", {}),
       Field("baz", "func", "optional", "none", {}),
       Field("defaulted", "func", "optional", "sync", {}) >>

\* new DriverManager('default'): joiSchema || {}
SchemaNone == << >>

SchemaNames == {"none", "simple", "full"}

RawSchema(name) ==
    CASE name = "none" -> SchemaNone
      [] name = "simple" -> SchemaSimple
      [] name = "full" -> SchemaFull

\* joi.compile(joiSchema || {}), with the id child merged in when absent
CompileSchema(raw) ==
    IF \E i \in 1..Len(raw) : raw[i].key = "id"
    THEN raw
    ELSE raw \o << Field("id", "string", "required", "none", {}) >>

Schema == CompileSchema(RawSchema(schemaName))

SchemaKeys(sch) == {sch[i].key : i \in 1..Len(sch)}

TplIncludesForbidden(f) ==
    /\ f.type = "func"
    /\ (f.default # "none" \/ f.presence = "required")

\* The constructor's reduce over the schema children.
TplIncludes(f) ==
    /\ f.type = "func"
    /\ (f.default # "none" \/ f.presence = "required")
    /\ ~(f.type = "func" /\ f.presence = "forbidden")

TplKindDefaultOnly(f) ==
    IF f.default = "async" THEN "async" ELSE "sync"

\* _.isAsyncFunction(_flags.default) || _.contains(_tags, 'async')
TplKind(f) ==
    IF f.default = "async" \/ "async" \in f.tags THEN "async" ELSE "sync"

TplFields(sch) == {i \in 1..Len(sch) : TplIncludes(sch[i])}

TplOf(sch, idx) == [k \in {sch[i].key : i \in idx} |-> TplKind(sch[CHOOSE i \in idx : sch[i].key = k])]

FnOverlayTpl(sch) == TplOf(sch, TplFields(sch))

MakeFnNoId(key, kind, requestedId) ==
    IF kind = "async" THEN makeAsync(key, "") ELSE makeSync(key, "")

\* makeFn(requestedDriverId) for a template entry
MakeFn(key, kind, requestedId) ==
    IF kind = "async" THEN makeAsync(key, requestedId) ELSE makeSync(key, requestedId)

(***************************************************************************)
(* joi.validate(value, schema, options, callback) with default options:    *)
(* abortEarly, no unknown keys, defaults applied to a shallow copy.        *)
(***************************************************************************)
Quote(k) == "\"" \o k \o "\""

TypeOk(f, v) ==
    CASE f.type = "string" -> v.t = "string" /\ v.a # ""
      [] f.type = "number" -> v.t = "number"
      [] f.type = "func"   -> IsFunctionValue(v)

FieldError(f, obj) ==
    IF ~Has(obj, f.key)
    THEN IF f.presence = "required" THEN Quote(f.key) \o " is required" ELSE ""
    ELSE IF f.presence = "forbidden" THEN Quote(f.key) \o " is not allowed"
    ELSE IF ~TypeOk(f, obj[f.key])
         THEN IF f.type = "string" /\ obj[f.key].t = "string"
              THEN Quote(f.key) \o " is not allowed to be empty"
              ELSE Quote(f.key) \o " must be a " \o f.type
    ELSE ""

DefaultValue(f) == UserFn(f.default, "default", f.key)

\* the children whose value is in error, the keys without a child, and the
\* absent children that have a default
BadFields(sch, obj) == {i \in 1..Len(sch) : FieldError(sch[i], obj) # ""}

UnknownKeys(sch, obj) == (DOMAIN obj) \ SchemaKeys(sch)

DefaultedFields(sch, obj) ==
    {i \in 1..Len(sch) : ~Has(obj, sch[i].key) /\ sch[i].default # "none"}

FieldAt(sch, idx, k) == sch[CHOOSE i \in idx : sch[i].key = k]

\* the first error in schema order, else the first unknown key, else the
\* value with the defaults filled in
JoiResult(sch, obj, bad, unknown, defaulted) ==
    IF bad # {}
    THEN [ok |-> FALSE,
          err |-> FieldError(sch[CHOOSE i \in bad : \A j \in bad : i <= j], obj),
          obj |-> NoObj]
    ELSE IF unknown # {}
    THEN [ok |-> FALSE,
          err |-> Quote(CHOOSE k \in unknown : TRUE) \o " is not allowed",
          obj |-> NoObj]
    ELSE [ok |-> TRUE,
          err |-> "",
          obj |-> [k \in (DOMAIN obj) \cup {sch[i].key : i \in defaulted} |->
                      IF Has(obj, k) THEN obj[k] ELSE DefaultValue(FieldAt(sch, defaulted, k))]]

JoiValidate(sch, obj) ==
    JoiResult(sch, obj, BadFields(sch, obj), UnknownKeys(sch, obj), DefaultedFields(sch, obj))

\* the class itself: no-op hooks, no listener
PlainHost == [before |-> "noop", after |-> "noop", listener |-> "none"]

\* the object an overriding beforeValidate returns: a copy of the driver
\* registered under another id
Renamed(driver) == Put(driver, "id", Str("bar"))

\* this.beforeValidate(driver): undefined from the class's method
BeforeValidate(driver) ==
    IF host.before = "replace" THEN [defined |-> TRUE, obj |-> Renamed(driver)]
    ELSE [defined |-> FALSE, obj |-> NoObj]

\* this.beforeValidate(driver) || driver
ValidateInput(driver) ==
    IF BeforeValidate(driver).defined THEN BeforeValidate(driver).obj ELSE driver

Checked == [t |-> "boolean", a |-> "true", b |-> ""]

\* the object handed to this.afterValidate after the call: an overriding
\* method may write to it
AfterValidateEffect(obj) ==
    IF host.after = "marks" THEN Put(obj, "checked", Checked) ELSE obj

\* what this.afterValidate(driver) returns
AfterValidate(obj) ==
    IF host.after = "returns" THEN [defined |-> TRUE, obj |-> [id |-> Str("returned")]]
    ELSE [defined |-> FALSE, obj |-> NoObj]

HooksAroundUsesReturn(r) ==
    [ok |-> r.ok, err |-> r.err,
     obj |-> IF r.ok /\ AfterValidate(r.obj).defined THEN AfterValidate(r.obj).obj
             ELSE IF r.ok THEN AfterValidateEffect(r.obj) ELSE r.obj,
     calls |-> IF r.ok THEN <<"beforeValidate", "afterValidate">>
                       ELSE <<"beforeValidate">>]

\* the hooks called around a joi result: afterValidate only after success
HooksAround(r) ==
    [ok |-> r.ok, err |-> r.err,
     obj |-> IF r.ok THEN AfterValidateEffect(r.obj) ELSE r.obj,
     calls |-> IF r.ok THEN <<"beforeValidate", "afterValidate">>
                       ELSE <<"beforeValidate">>]

ValidateAfterAlways(driver) ==
    [HooksAround(JoiValidate(Schema, ValidateInput(driver))) EXCEPT !.calls = <<"beforeValidate", "afterValidate">>]

\* DriverManager.validate: beforeValidate, joi.validate, afterValidate.
\* With the class's no-op methods beforeValidate returns undefined, so the
\* driver itself is validated.
Validate(driver) == HooksAround(JoiValidate(Schema, ValidateInput(driver)))

(***************************************************************************)
(* The store: this.drivers = {} is a plain object.  own is its own         *)
(* enumerable properties in insertion order; proto is the object its       *)
(* prototype link points to when an assignment to '__proto__' replaced it  *)
(* (NoObj: still Object.prototype).                                        *)
(***************************************************************************)
EmptyStore == [own |-> << >>, proto |-> NoObj]

\* members every plain object inherits from Object.prototype
ObjectPrototypeNames ==
    {"constructor", "hasOwnProperty", "isPrototypeOf", "propertyIsEnumerable",
     "toLocaleString", "toString", "valueOf"}

OwnKeys(d) == {d.own[i].k : i \in 1..Len(d.own)}

OwnValue(d, id) == d.own[CHOOSE i \in 1..Len(d.own) : d.own[i].k = id].v

Undefined == [t |-> "undefined", a |-> "", b |-> ""]

\* this.drivers[id]: own property, then the prototype chain
GetProp(d, id) ==
    IF id \in OwnKeys(d) THEN [what |-> "object", val |-> Undefined, obj |-> OwnValue(d, id)]
    ELSE IF id = "__proto__"
         THEN IF d.proto = NoObj
              THEN [what |-> "Object.prototype", val |-> Undefined, obj |-> NoObj]
              ELSE [what |-> "object", val |-> Undefined, obj |-> d.proto]
    ELSE IF Has(d.proto, id) THEN [what |-> "value", val |-> d.proto[id], obj |-> NoObj]
    ELSE IF id \in ObjectPrototypeNames
         THEN [what |-> "value", val |-> [t |-> "builtin", a |-> id, b |-> ""], obj |-> NoObj]
    ELSE [what |-> "undefined", val |-> Undefined, obj |-> NoObj]

\* this.drivers[id] = driver: '__proto__' is the prototype accessor, every
\* other name creates or overwrites an own property
SetProp(d, id, driver) ==
    IF id = "__proto__" THEN [d EXCEPT !.proto = driver]
    ELSE IF id \in OwnKeys(d)
         THEN [d EXCEPT !.own = [i \in 1..Len(d.own) |->
                                   IF d.own[i].k = id THEN [k |-> id, v |-> driver]
                                                      ELSE d.own[i]]]
    ELSE [d EXCEPT !.own = Append(d.own, [k |-> id, v |-> driver])]

\* delete this.drivers[id]
DeleteProp(d, id) ==
    [d EXCEPT !.own = SelectSeq(d.own, LAMBDA e : e.k # id)]

\* this.drivers.hasOwnProperty(driverId): the method is looked up on the store
\* itself, so an own property named 'hasOwnProperty' (a driver object, not a
\* function) makes the call a TypeError.
Exists(d, driverId) ==
    IF GetProp(d, "hasOwnProperty").what = "object" THEN "TypeError"
    ELSE IF driverId \in OwnKeys(d) THEN "true"
    ELSE "false"

\* a property name that is a canonical array index, as its number (-1: none);
\* the numeric ids in use are '1' and '2'
ToArrayIndex(k) ==
    CASE k = "0" -> 0
      [] k = "1" -> 1
      [] k = "2" -> 2
      [] OTHER -> -1

IndexPositions(d) == {i \in 1..Len(d.own) : ToArrayIndex(d.own[i].k) >= 0}

NamePositions(d) == {i \in 1..Len(d.own) : ToArrayIndex(d.own[i].k) < 0}

\* the j-th array index in ascending numeric order
NthIndex(d, idx, j) ==
    CHOOSE i \in idx :
       Cardinality({x \in idx : ToArrayIndex(d.own[x].k) < ToArrayIndex(d.own[i].k)}) = j - 1

\* the j-th other name in insertion order
NthName(d, names, j) == CHOOSE i \in names : Cardinality({x \in names : x < i}) = j - 1

\* own property enumeration: array indices ascending, then the other string
\* names in the order they were created
EnumOrder(d, idx, names) ==
    [j \in 1..Len(d.own) |->
        IF j <= Cardinality(idx) THEN NthIndex(d, idx, j)
                                 ELSE NthName(d, names, j - Cardinality(idx))]

OwnPropertyOrder(d) == EnumOrder(d, IndexPositions(d), NamePositions(d))

\* Object.keys(this.drivers)
ObjectKeys(d) == [j \in 1..Len(d.own) |-> d.own[OwnPropertyOrder(d)[j]].k]

\* _.values(this.drivers)
Values(d) == [j \in 1..Len(d.own) |-> d.own[OwnPropertyOrder(d)[j]].v]

(***************************************************************************)
(* Results and notifications                                               *)
(***************************************************************************)
Ret(what, val, obj) == [kind |-> "return", what |-> what, val |-> val, obj |-> obj, list |-> << >>]

RetObj(obj) == Ret("object", Undefined, obj)

RetVoid == Ret("undefined", Undefined, NoObj)

RetList(l) == [kind |-> "return", what |-> "list", val |-> Undefined, obj |-> NoObj, list |-> l]

Throw(err) == [kind |-> "throw", what |-> err, val |-> Undefined, obj |-> NoObj, list |-> << >>]

ErrValidation(msg) == "ValidationError: " \o msg
ErrHasOwn == "TypeError: this.drivers.hasOwnProperty is not a function"
ErrReserved == "A driver with id 'missing' cannot be registered when the DriverManager already has a default 'missing' driver"
ErrDuplicate(id) == "A driver is already registered with id " \o id
ErrNotFound(id) == "badRequest: No driver registered with id " \o Quote(id) \o " and no default 'missing' driver was configured."
ErrBadGenerator == "Configured 'missing' driver must be a function or 'true'"
ErrLateGenerator == "Cannot configure a default 'missing' driver when a driver with that id has already been added"
ErrRemoveMissing == "Cannot remove the configured default 'missing' driver"
ErrNoGenerator == "TypeError: drivers.missing is not a function"

\* this.emit(ev, obj): listeners run inside the call and find the store as
\* it is at that moment
Emit(ev, obj, d) == [ev |-> ev, obj |-> obj, store |-> d]

(***************************************************************************)
(* The 'missing' generator                                                 *)
(***************************************************************************)
NoGen == [kind |-> "none", shared |-> NoObj]

\* the values the tests assign to `missing`
GenKinds == {"true", "byId", "override", "notImpl"}

\* missingDriver(requestedDriverId, notImplemented(requestedDriverId)) || {}
\* `true` was replaced by _.constant({}): every call returns the one object
\* created by the setter, kept in g.shared.
GeneratorCall(g, requestedId) ==
    CASE g.kind = "true" -> g.shared
      [] g.kind = "byId" -> [name |-> Str("Missing Driver: " \o requestedId)]
      [] g.kind = "override" ->
            [name |-> Str("Missing Driver: " \o requestedId),
             syncFn |-> UserFn("sync", "custom", "syncFn")]
      [] g.kind = "notImpl" ->
            [id |-> Str("my-missing-driver"),
             name |-> Str("Missing Driver: " \o requestedId),
             optionalSyncFn |-> [t |-> "notImplSync", a |-> "optionalSyncFn", b |-> requestedId]]

ForceIdIfAbsent(base) == IF Has(base, "id") THEN base ELSE Put(base, "id", Str("missing"))

\* _.set(base, ['id'], 'missing')
ForceId(base) == Put(base, "id", Str("missing"))

OverlayStandInWins(missingBase, tpl, requestedId) ==
    [k \in (DOMAIN missingBase) \cup (DOMAIN tpl) |->
        IF Has(tpl, k) THEN MakeFn(k, tpl[k], requestedId) ELSE missingBase[k]]

\* _.defaults(missingBase, _.mapValues(this.fnOverlayTpl, makeFn => makeFn(id)))
Overlay(missingBase, tpl, requestedId) ==
    [k \in (DOMAIN missingBase) \cup (DOMAIN tpl) |->
        IF Has(missingBase, k) THEN missingBase[k] ELSE MakeFn(k, tpl[k], requestedId)]

\* this._genMissing(requestedDriverId): the object handed to validate, and the
\* generator afterwards (_.set and _.defaults write into the object the
\* generator returned)
MissingObject(g, tpl, requestedId) ==
    Overlay(ForceId(GeneratorCall(g, requestedId)), tpl, requestedId)

GenAfterCall(g, tpl, requestedId) ==
    IF g.kind = "true" THEN [g EXCEPT !.shared = MissingObject(g, tpl, requestedId)] ELSE g

ValidatedResult(v) ==
    [result |-> IF v.ok THEN RetObj(v.obj) ELSE Throw(ErrValidation(v.err)),
     calls |-> v.calls]

GenMissing(g, tpl, requestedId) ==
    ValidatedResult(Validate(MissingObject(g, tpl, requestedId)))

(***************************************************************************)
(* Inputs                                                                  *)
(***************************************************************************)
AddIds == {"foo", "bar", "missing", "__proto__", "hasOwnProperty"}

\* ids asked for: the ids that can be added and a member of Object.prototype
GetIds == AddIds \cup {"toString"}

\* ids passed to drivers.missing(id)
CallIds == {"foo", "bar"}

IdOnly(id) == [id |-> Str(id)]

Named(id, nm) ==
    [id |-> Str(id), name |-> Str(nm),
     requiredSyncFn |-> UserFn("sync", "noop", "requiredSyncFn"),
     requiredAsyncFn |-> UserFn("async", "noop", "requiredAsyncFn")]

\* a driver the registry's schema accepts: the 'missing driver' suite's
\* schema requires name and the two required functions, the others accept
\* no field of that kind
ValidDriver(id) == IF schemaName = "full" THEN Named(id, "A") ELSE IdOnly(id)

\* a second valid driver with the same id and another field value
OtherDriver(id) ==
    IF schemaName = "full" THEN Named(id, "B")
    ELSE IF schemaName = "simple" THEN [id |-> Str(id), foo |-> Str("x")]
    ELSE IdOnly(id)

\* a driver with an id that the schema rejects
InvalidDriver(id) == IF schemaName = "full" THEN IdOnly(id) ELSE Named(id, "A")

\* ids that are numeric strings
NumericIds == {"1", "2"}

RawDrivers ==
    {NoObj, OtherDriver("foo"), InvalidDriver("foo")}
       \cup {ValidDriver(id) : id \in AddIds \cup NumericIds}

Batches ==
    { << >>,
      << ValidDriver("foo"), ValidDriver("bar") >>,
      << ValidDriver("bar"), ValidDriver("foo") >>,
      << ValidDriver("foo"), OtherDriver("foo") >>,
      << ValidDriver("bar"), NoObj, ValidDriver("foo") >>,
      << ValidDriver("missing"), ValidDriver("foo") >>,
      << ValidDriver("foo"), ValidDriver("__proto__") >> }

MissingValues == GenKinds \cup {"invalid"}

Call(op, id, allowNull, arg, batch, mval, result, emitted, calls) ==
    [op |-> op, id |-> id, allowNull |-> allowNull, arg |-> arg, batch |-> batch,
     mval |-> mval, result |-> result, emitted |-> emitted, calls |-> calls]

\* between two calls: the caller holds no result
Idle == Call("idle", "", FALSE, NoObj, << >>, "", RetVoid, << >>, << >>)

(***************************************************************************)
(* Operations                                                              *)
(***************************************************************************)
\* if (this.exists(driver.id)) throw ...
IsDuplicateNever(d, id) == FALSE

IsDuplicate(d, id) == Exists(d, id) = "true"

\* this.missing && driver.id === 'missing'
IsReservedIdNever(g, id) == FALSE

IsReservedId(g, id) == g.kind # "none" /\ id = "missing"

\* a call that threw: the store is as it was, nothing was emitted
Failed(d, err, calls) ==
    [store |-> d, result |-> Throw(err), emitted |-> << >>, calls |-> calls]

ErrListener == "Error: listener failed"

\* this.emit(...) with a listener that throws: the error leaves emit and the
\* method that called it
ListenerResult(r) == IF host.listener = "throws" THEN Throw(ErrListener) ELSE r

AddCheckedDuplicateFirst(d, g, v, id) ==
    IF Exists(d, id) = "TypeError" THEN Failed(d, ErrHasOwn, v.calls)
    ELSE IF IsDuplicate(d, id) THEN Failed(d, ErrDuplicate(id), v.calls)
    ELSE IF IsReservedId(g, id) THEN Failed(d, ErrReserved, v.calls)
    ELSE [store |-> SetProp(d, id, v.obj), result |-> ListenerResult(RetObj(v.obj)),
          emitted |-> << Emit("add", v.obj, SetProp(d, id, v.obj)) >>, calls |-> v.calls]

\* add after validation succeeded with driver v.obj, whose id is id
AddChecked(d, g, v, id) ==
    IF IsReservedId(g, id) THEN Failed(d, ErrReserved, v.calls)
    ELSE IF Exists(d, id) = "TypeError" THEN Failed(d, ErrHasOwn, v.calls)
    ELSE IF IsDuplicate(d, id) THEN Failed(d, ErrDuplicate(id), v.calls)
    ELSE [store |-> SetProp(d, id, v.obj), result |-> ListenerResult(RetObj(v.obj)),
          emitted |-> << Emit("add", v.obj, SetProp(d, id, v.obj)) >>, calls |-> v.calls]

AddValidated(d, g, v) ==
    IF ~v.ok THEN Failed(d, ErrValidation(v.err), v.calls)
    ELSE AddChecked(d, g, v, v.obj["id"].a)

\* DriverManager.add(driver) on store d with generator g
AddOutcome(d, g, driver) == AddValidated(d, g, Validate(driver))

\* drivers.map(d => this.add(d)) after one more element: its add has thrown,
\* or its validated driver joins the returned array
AddAllMerge(prev, one) ==
    [store |-> one.store,
     result |-> IF one.result.kind = "throw"
                THEN one.result
                ELSE RetList(Append(prev.result.list, one.result.obj)),
     emitted |-> prev.emitted \o one.emitted,
     calls |-> prev.calls \o one.calls]

\* One round of drivers.map(d => this.add(d)): element i is added unless the
\* batch is shorter or an earlier add has thrown.
AddAllStep(prev, g, batch, i) ==
    IF i > Len(batch) \/ prev.result.kind = "throw"
    THEN prev
    ELSE AddAllMerge(prev, AddOutcome(prev.store, g, batch[i]))

AddAllStart(d) ==
    [store |-> d, result |-> RetList(<< >>), emitted |-> << >>, calls |-> << >>]

\* DriverManager.addAll(drivers), for arrays of up to three drivers
AddAllOutcome(d, g, batch) ==
    AddAllStep(AddAllStep(AddAllStep(AddAllStart(d), g, batch, 1), g, batch, 2), g, batch, 3)

\* get for an id that is no own property
GetAbsent(d, g, tpl, id, allowNull) ==
    IF g.kind # "none"
    THEN [out |-> GenMissing(g, tpl, id), gen |-> GenAfterCall(g, tpl, id)]
    ELSE IF ~allowNull
    THEN [out |-> [result |-> Throw(ErrNotFound(id)), calls |-> << >>], gen |-> g]
    ELSE [out |-> [result |-> GetProp(d, id) @@ [kind |-> "return", list |-> << >>],
                   calls |-> << >>], gen |-> g]

\* DriverManager.get(id, allowNull)
GetOutcome(d, g, tpl, id, allowNull) ==
    CASE Exists(d, id) = "TypeError" ->
            [out |-> [result |-> Throw(ErrHasOwn), calls |-> << >>], gen |-> g]
      [] Exists(d, id) = "false" -> GetAbsent(d, g, tpl, id, allowNull)
      [] Exists(d, id) = "true" ->
            [out |-> [result |-> RetObj(OwnValue(d, id)), calls |-> << >>], gen |-> g]

\* set missing (missingDriver)
SetMissingOutcome(d, g, mval) ==
    IF mval \notin GenKinds THEN [result |-> Throw(ErrBadGenerator), gen |-> g]
    ELSE IF Exists(d, "missing") = "TypeError" THEN [result |-> Throw(ErrHasOwn), gen |-> g]
    ELSE IF Exists(d, "missing") = "true" THEN [result |-> Throw(ErrLateGenerator), gen |-> g]
    ELSE [result |-> RetVoid, gen |-> [kind |-> mval, shared |-> NoObj]]

RemoveOutcomeUnguarded(d, id) ==
    IF Exists(d, id) = "TypeError" THEN Failed(d, ErrHasOwn, << >>)
    ELSE IF Exists(d, id) = "true"
    THEN [store |-> IF host.listener = "throws" THEN d ELSE DeleteProp(d, id),
          result |-> ListenerResult(RetVoid),
          emitted |-> << Emit("remove", OwnValue(d, id), d) >>, calls |-> << >>]
    ELSE [store |-> d, result |-> RetVoid, emitted |-> << >>, calls |-> << >>]

\* DriverManager.remove(id)
RemoveOutcome(d, id) ==
    IF id = "missing" THEN Failed(d, ErrRemoveMissing, << >>)
    ELSE IF Exists(d, id) = "TypeError" THEN Failed(d, ErrHasOwn, << >>)
    ELSE IF Exists(d, id) = "true"
    THEN [store |-> IF host.listener = "throws" THEN d ELSE DeleteProp(d, id),
          result |-> ListenerResult(RetVoid),
          emitted |-> << Emit("remove", OwnValue(d, id), d) >>, calls |-> << >>]
    ELSE [store |-> d, result |-> RetVoid, emitted |-> << >>, calls |-> << >>]

(***************************************************************************)
(* State machine                                                           *)
(***************************************************************************)
\* new DriverManager(driverType, joiSchema, options, missing): a falsy
\* `missing` leaves the generator unset, any other goes through the setter
Init ==
    /\ schemaName \in SchemaNames
    /\ fnOverlayTpl = FnOverlayTpl(Schema)
    /\ drivers = EmptyStore
    /\ jobs = << >>
    /\ host = PlainHost
    /\ \E mval \in GenKinds \cup {"none"} :
          /\ gen = IF mval = "none" THEN NoGen ELSE SetMissingOutcome(EmptyStore, NoGen, mval).gen
          /\ last = Call("new", "", FALSE, NoObj, << >>, mval, RetVoid, << >>, << >>)

\* a call that may change the store: o is its outcome
StoreCall(op, id, arg, batch, o) ==
    /\ last = Idle
    /\ Len(o.store.own) <= MaxDrivers
    /\ drivers' = o.store
    /\ last' = Call(op, id, FALSE, arg, batch, "", o.result, o.emitted, o.calls)
    /\ UNCHANGED <<schemaName, fnOverlayTpl, gen, jobs, host>>

GenCallStoring(op, id, allowNull, mval, out, g) ==
    /\ last = Idle
    /\ gen' = g
    /\ last' = Call(op, id, allowNull, NoObj, << >>, mval, out.result, << >>, out.calls)
    /\ drivers' = IF out.result.what = "object" /\ out.calls # << >>
                  THEN SetProp(drivers, out.result.obj["id"].a, out.result.obj)
                  ELSE drivers
    /\ UNCHANGED <<schemaName, fnOverlayTpl, jobs, host>>

\* a call that may change the generator: out is its outcome, g the generator after it
GenCall(op, id, allowNull, mval, out, g) ==
    /\ last = Idle
    /\ gen' = g
    /\ last' = Call(op, id, allowNull, NoObj, << >>, mval, out.result, << >>, out.calls)
    /\ UNCHANGED <<schemaName, fnOverlayTpl, drivers, jobs, host>>

Add(driver) == StoreCall("add", "", driver, << >>, AddOutcome(drivers, gen, driver))

AddAll(batch) == StoreCall("addAll", "", NoObj, batch, AddAllOutcome(drivers, gen, batch))

GetCall(id, allowNull, o) == GenCall("get", id, allowNull, "", o.out, o.gen)

Get(id, allowNull) == GetCall(id, allowNull, GetOutcome(drivers, gen, fnOverlayTpl, id, allowNull))

\* drivers.missing(id): calling what the getter returns
CallMissing(id) ==
    IF gen.kind = "none"
    THEN GenCall("missing", id, FALSE, "", [result |-> Throw(ErrNoGenerator), calls |-> << >>], gen)
    ELSE GenCall("missing", id, FALSE, "", GenMissing(gen, fnOverlayTpl, id),
                 GenAfterCall(gen, fnOverlayTpl, id))

SetMissingCall(mval, o) ==
    GenCall("setMissing", "", FALSE, mval, [result |-> o.result, calls |-> << >>], o.gen)

SetMissing(mval) == SetMissingCall(mval, SetMissingOutcome(drivers, gen, mval))

Remove(id) == StoreCall("remove", id, NoObj, << >>, RemoveOutcome(drivers, id))

\* DriverManager.exists(driverId), as a call of the application
ExistsResult(d, driverId) ==
    IF Exists(d, driverId) = "TypeError"
    THEN Throw(ErrHasOwn)
    ELSE Ret("boolean", [t |-> "boolean", a |-> Exists(d, driverId), b |-> ""], NoObj)

ExistsCall(id) ==
    GenCall("exists", id, FALSE, "", [result |-> ExistsResult(drivers, id), calls |-> << >>], gen)

\* an id -> driver mapping handed to the caller: its entries, and whether it
\* is the store object itself or an object of its own
Mapping(entries, same) ==
    [kind |-> "return", what |-> "mapping",
     val |-> [t |-> "mapping", a |-> IF same THEN "store" ELSE "copy", b |-> ""],
     obj |-> NoObj, list |-> entries]

OwnEntries(d) == [j \in 1..Len(d.own) |-> d.own[OwnPropertyOrder(d)[j]]]

CloneSame(d) == Mapping(OwnEntries(d), TRUE)

\* _.clone(this.drivers): a new object with the store's own properties
Clone(d) == Mapping(OwnEntries(d), FALSE)

\* DriverManager.get() without arguments
GetAll == GenCall("getAll", "", FALSE, "", [result |-> Clone(drivers), calls |-> << >>], gen)

\* a write of the caller to the mapping it holds reaches the store only when
\* the mapping is the store object
WriteThrough(c, d, written) == IF c.result.val.a = "store" THEN written ELSE d

EntriesPut(entries, id, driver) ==
    IF \E i \in 1..Len(entries) : entries[i].k = id
    THEN [i \in 1..Len(entries) |-> IF entries[i].k = id THEN [k |-> id, v |-> driver] ELSE entries[i]]
    ELSE Append(entries, [k |-> id, v |-> driver])

EntriesDelete(entries, id) == SelectSeq(entries, LAMBDA en : en.k # id)

\* mapping[id] = {id: 'intruder'} by the caller of get()
CopyPut(id) ==
    /\ last.op = "getAll"
    /\ drivers' = WriteThrough(last, drivers, SetProp(drivers, id, IdOnly("intruder")))
    /\ last' = Call("copyPut", id, FALSE, NoObj, << >>, "",
                    Mapping(EntriesPut(last.result.list, id, IdOnly("intruder")), last.result.val.a = "store"),
                    << >>, << >>)
    /\ UNCHANGED <<schemaName, fnOverlayTpl, gen, jobs, host>>

\* delete mapping[id] by the caller of get()
CopyDelete(id) ==
    /\ last.op = "getAll"
    /\ drivers' = WriteThrough(last, drivers, DeleteProp(drivers, id))
    /\ last' = Call("copyDelete", id, FALSE, NoObj, << >>, "",
                    Mapping(EntriesDelete(last.result.list, id), last.result.val.a = "store"),
                    << >>, << >>)
    /\ UNCHANGED <<schemaName, fnOverlayTpl, gen, jobs, host>>

StrList(ks) == [j \in 1..Len(ks) |-> Str(ks[j])]

\* DriverManager.keys()
Keys == GenCall("keys", "", FALSE, "", [result |-> RetList(StrList(ObjectKeys(drivers))), calls |-> << >>], gen)

\* DriverManager.all()
All == GenCall("all", "", FALSE, "", [result |-> RetList(Values(drivers)), calls |-> << >>], gen)

RemoveAllEmitFirst ==
    /\ last = Idle
    /\ drivers' = EmptyStore
    /\ last' = Call("removeAll", "", FALSE, NoObj, << >>, "", ListenerResult(RetVoid), << Emit("removeAll", NoObj, drivers) >>, << >>)
    /\ UNCHANGED <<schemaName, fnOverlayTpl, gen, jobs, host>>

\* this.drivers = {}; this.emit('removeAll')
RemoveAll ==
    /\ last = Idle
    /\ drivers' = EmptyStore
    /\ last' = Call("removeAll", "", FALSE, NoObj, << >>, "", ListenerResult(RetVoid), << Emit("removeAll", NoObj, EmptyStore) >>, << >>)
    /\ UNCHANGED <<schemaName, fnOverlayTpl, gen, jobs, host>>

\* the promise an async function returns to its caller
Promise == [t |-> "promise", a |-> "", b |-> ""]

IsAsyncValue(v) == v.t \in {"standinAsync", "async"}

\* what the call of function value v gives its caller: an async function
\* hands back a promise, whatever its body does
InvokeResult(v) ==
    IF IsAsyncValue(v) THEN Ret("value", Promise, NoObj)
    ELSE IF Invoke(v).how = "throws" THEN Throw(Invoke(v).msg)
    ELSE RetVoid

\* how the body of the async function ended is delivered by a later job
JobsAfterInvoke(q, v) == IF IsAsyncValue(v) THEN Append(q, Invoke(v)) ELSE q

InvokeValue(f, v) ==
    /\ IsFunctionValue(v)
    /\ IsAsyncValue(v) => Len(jobs) < MaxJobs
    /\ last' = Call("invoke", "", FALSE, [k \in {f} |-> v], << >>, "", InvokeResult(v), << >>, << >>)
    /\ jobs' = JobsAfterInvoke(jobs, v)
    /\ UNCHANGED <<schemaName, fnOverlayTpl, drivers, gen, host>>

\* driver[f](): the caller calls function field f of the driver it was handed
InvokeField(f) ==
    /\ last.result.kind = "return"
    /\ last.result.what = "object"
    /\ Has(last.result.obj, f)
    /\ InvokeValue(f, last.result.obj[f])

SettleResultFulfilled(job) == RetVoid

\* the outcome the awaiting caller receives
SettleResult(job) == IF job.how = "rejects" THEN Throw(job.msg) ELSE RetVoid

\* the job queue delivers the outcome of the oldest promise
Settle ==
    /\ jobs # << >>
    /\ last' = Call("settle", "", FALSE, NoObj, << >>, "", SettleResult(Head(jobs)), << >>, << >>)
    /\ jobs' = Tail(jobs)
    /\ UNCHANGED <<schemaName, fnOverlayTpl, drivers, gen, host>>

\* the caller has taken the result of the call; the registry is untouched
Return ==
    /\ last # Idle
    /\ last' = Idle
    /\ UNCHANGED <<schemaName, fnOverlayTpl, drivers, gen, jobs, host>>

Next ==
    \/ \E driver \in RawDrivers : Add(driver)
    \/ \E batch \in Batches : AddAll(batch)
    \/ \E id \in GetIds, allowNull \in BOOLEAN : Get(id, allowNull)
    \/ \E id \in CallIds : CallMissing(id)
    \/ \E mval \in MissingValues : SetMissing(mval)
    \/ \E id \in GetIds : Remove(id)
    \/ RemoveAll
    \/ Keys
    \/ All
    \/ GetAll
    \/ \E id \in GetIds : ExistsCall(id)
    \/ \E id \in CallIds : CopyPut(id)
    \/ \E id \in CallIds : CopyDelete(id)
    \/ Return

Spec == Init /\ [][Next]_vars

\* function fields the caller invokes
InvokeFields == {"asyncFn", "requiredAsyncFn", "taggedAsyncFn", "requiredSyncFn", "defaulted"}

\* the registry with a caller that gets drivers for the ids in CallIds and
\* invokes their functions
NextAsync ==
    \/ \E driver \in {ValidDriver(id) : id \in CallIds} : Add(driver)
    \/ \E id \in CallIds, allowNull \in BOOLEAN : Get(id, allowNull)
    \/ \E id \in CallIds : CallMissing(id)
    \/ \E f \in InvokeFields : InvokeField(f)
    \/ Settle
    \/ Return

SpecAsync == Init /\ [][NextAsync]_vars /\ WF_vars(Settle)

(***************************************************************************)
(* lib/index.js: the DriverManager constructor function of the library     *)
(* directory.  It has the same store and schema, no 'missing' generator    *)
(* and no overlay template.                                                *)
(***************************************************************************)
ErrLegacyNotFound(id) == "badRequest: No driver registered with id " \o Quote(id)

\* the joi callback of add after validation succeeded: duplicate check, store
LegacyAddChecked(d, r, id) ==
    IF Exists(d, id) = "TypeError" THEN Failed(d, ErrHasOwn, <<"beforeValidate">>)
    ELSE IF Exists(d, id) = "true" THEN Failed(d, ErrDuplicate(id), <<"beforeValidate">>)
    ELSE [store |-> SetProp(d, id, r.obj), result |-> RetObj(r.obj),
          emitted |-> << Emit("add", r.obj, SetProp(d, id, r.obj)) >>,
          calls |-> <<"beforeValidate", "afterValidate">>]

LegacyAddValidated(d, r) ==
    IF ~r.ok THEN Failed(d, ErrValidation(r.err), <<"beforeValidate">>)
    ELSE LegacyAddChecked(d, r, r.obj["id"].a)

\* DriverManager.prototype.add
LegacyAddOutcome(d, driver) == LegacyAddValidated(d, JoiValidate(Schema, driver))

\* DriverManager.prototype.get(id, allowNull)
LegacyGetOutcome(d, id, allowNull) ==
    IF allowNull THEN [result |-> GetProp(d, id) @@ [kind |-> "return", list |-> << >>], calls |-> << >>]
    ELSE IF Exists(d, id) = "TypeError" THEN [result |-> Throw(ErrHasOwn), calls |-> << >>]
    ELSE IF Exists(d, id) = "false" THEN [result |-> Throw(ErrLegacyNotFound(id)), calls |-> << >>]
    ELSE [result |-> RetObj(OwnValue(d, id)), calls |-> << >>]

\* DriverManager.prototype.remove(id)
LegacyRemoveOutcome(d, id) ==
    IF Exists(d, id) = "TypeError" THEN Failed(d, ErrHasOwn, << >>)
    ELSE IF Exists(d, id) = "true"
    THEN [store |-> DeleteProp(d, id), result |-> RetVoid,
          emitted |-> << Emit("remove", OwnValue(d, id), d) >>, calls |-> << >>]
    ELSE [store |-> d, result |-> RetVoid, emitted |-> << >>, calls |-> << >>]

\* function DriverManager(driverType, joiSchema, options)
LegacyInit ==
    /\ schemaName \in SchemaNames
    /\ fnOverlayTpl = NoObj
    /\ drivers = EmptyStore
    /\ gen = NoGen
    /\ jobs = << >>
    /\ host = PlainHost
    /\ last = Call("new", "", FALSE, NoObj, << >>, "none", RetVoid, << >>, << >>)

LegacyAdd(driver) == StoreCall("add", "", driver, << >>, LegacyAddOutcome(drivers, driver))

LegacyGet(id, allowNull) ==
    GenCall("get", id, allowNull, "", LegacyGetOutcome(drivers, id, allowNull), gen)

LegacyRemove(id) == StoreCall("remove", id, NoObj, << >>, LegacyRemoveOutcome(drivers, id))

\* DriverManager.prototype.removeAll is RemoveAll: this.drivers = {}, emit
LegacyNext ==
    \/ \E driver \in RawDrivers : LegacyAdd(driver)
    \/ \E id \in GetIds, allowNull \in BOOLEAN : LegacyGet(id, allowNull)
    \/ \E id \in GetIds : LegacyRemove(id)
    \/ RemoveAll
    \/ Return

LegacySpec == LegacyInit /\ [][LegacyNext]_vars

(***************************************************************************)
(* A host application that subclasses DriverManager and listens to it      *)
(***************************************************************************)
\* the overriding hook methods and the listener of the host
Hosts ==
    [before : {"noop", "replace"}, after : {"noop", "returns", "marks"},
     listener : {"none", "throws"}]

\* new of a subclass of DriverManager, followed by on(event, listener)
HostInit ==
    /\ schemaName \in SchemaNames
    /\ fnOverlayTpl = FnOverlayTpl(Schema)
    /\ drivers = EmptyStore
    /\ jobs = << >>
    /\ host \in Hosts
    /\ \E mval \in GenKinds \cup {"none"} :
          /\ gen = IF mval = "none" THEN NoGen ELSE SetMissingOutcome(EmptyStore, NoGen, mval).gen
          /\ last = Call("new", "", FALSE, NoObj, << >>, mval, RetVoid, << >>, << >>)

HostDrivers ==
    {NoObj, InvalidDriver("foo")} \cup {ValidDriver(id) : id \in CallIds \cup {"__proto__"}}

NextHost ==
    \/ \E driver \in HostDrivers : Add(driver)
    \/ \E id \in CallIds, allowNull \in BOOLEAN : Get(id, allowNull)
    \/ \E id \in CallIds : Remove(id)
    \/ RemoveAll
    \/ Return

SpecHost == HostInit /\ [][NextHost]_vars

(***************************************************************************)
(* Properties                                                              *)
(***************************************************************************)
\* the id of a raw driver that carries one
IdOf(driver) == driver["id"].a

\* the validated (defaulted) form of a driver the schema accepts
Validated(driver) == JoiValidate(Schema, driver).obj

\* a step that is a call of add with a driver the schema accepts
ValidAddStep == last'.op = "add" /\ JoiValidate(Schema, last'.arg).ok

\* a driver handed out by missing-driver synthesis: by missing(id), or by get
\* for an id that is no own property of the store
Synthesized ==
    /\ last.result.kind = "return"
    /\ last.result.what = "object"
    /\ \/ last.op = "missing"
       \/ last.op = "get" /\ gen.kind # "none" /\ last.id \notin OwnKeys(drivers)

\* C1: in every reachable state, it is never the case that a Missing Generator
\* is configured and the store holds a driver with id 'missing'.
C1_NoGeneratorWithStoredMissing ==
    ~(gen.kind # "none" /\ "missing" \in OwnKeys(drivers))

\* C1 witness: with a generator configured, add of a driver with id 'missing'
\* was attempted and refused.
C1_Witness ==
    /\ gen.kind # "none"
    /\ last.op = "add"
    /\ last.arg = ValidDriver("missing")
    /\ last.result = Throw(ErrReserved)

\* C2 (as claimed): for every driver D the schema accepts whose id is not yet
\* stored (and is not the id reserved by a configured generator), add(D)
\* returns the validated form of D, and afterwards exists(D.id) is true and
\* get(D.id) returns that same value.
C2_AddThenGet ==
    [][(/\ ValidAddStep
        /\ IdOf(last'.arg) \notin OwnKeys(drivers)
        /\ ~IsReservedId(gen, IdOf(last'.arg)))
       => (/\ last'.result = RetObj(Validated(last'.arg))
           /\ Exists(drivers', IdOf(last'.arg)) = "true"
           /\ GetOutcome(drivers', gen', fnOverlayTpl', IdOf(last'.arg), FALSE).out.result
                = last'.result)]_vars

\* C3: add of a driver whose id is already stored fails with an error, leaves
\* the store exactly as it was (same keys, the original driver under the id,
\* get answering as before) and emits no 'add' notification.
C3_DuplicateAddLeavesStore ==
    [][(ValidAddStep /\ IdOf(last'.arg) \in OwnKeys(drivers))
       => (/\ last'.result.kind = "throw"
           /\ drivers' = drivers
           /\ OwnValue(drivers', IdOf(last'.arg)) = OwnValue(drivers, IdOf(last'.arg))
           /\ \A a \in BOOLEAN :
                 GetOutcome(drivers', gen', fnOverlayTpl', IdOf(last'.arg), a).out.result
                   = GetOutcome(drivers, gen, fnOverlayTpl, IdOf(last'.arg), a).out.result
           /\ last'.emitted = << >>)]_vars

\* C3 witness: a second, different driver with the stored id 'foo' was
\* refused as a duplicate.
C3_Witness ==
    /\ last.op = "add"
    /\ last.arg = OtherDriver("foo")
    /\ last.result = Throw(ErrDuplicate("foo"))
    /\ "foo" \in OwnKeys(drivers)
    /\ schemaName = "full"
    /\ OwnValue(drivers, "foo") # Validated(OtherDriver("foo"))

\* C4: add of a driver that fails schema validation (one without id, also
\* under the schema created when none is supplied) fails with the validation
\* error, stores nothing, emits no 'add' notification and does not call
\* afterValidate.
C4_InvalidAddRejected ==
    [][(last'.op = "add" /\ ~JoiValidate(Schema, last'.arg).ok)
       => (/\ last'.result = Throw(ErrValidation(JoiValidate(Schema, last'.arg).err))
           /\ (~Has(last'.arg, "id") => last'.result = Throw(ErrValidation("\"id\" is required")))
           /\ drivers' = drivers
           /\ last'.emitted = << >>
           /\ \A i \in 1..Len(last'.calls) : last'.calls[i] # "afterValidate")]_vars

\* C4 witness: a registry built without a schema refused add({}).
C4_Witness ==
    /\ schemaName = "none"
    /\ last.op = "add"
    /\ last.arg = NoObj
    /\ last.result = Throw(ErrValidation("\"id\" is required"))

\* C5 (as claimed): with no generator configured, for every id that is not in
\* the store, get(id) and get(id, false) fail with the not-found error and
\* get(id, true) returns undefined; the store is unchanged.
C5_GetAbsentWithoutGenerator ==
    [][(last'.op = "get" /\ gen.kind = "none" /\ last'.id \notin OwnKeys(drivers))
       => (/\ drivers' = drivers
           /\ last'.result = IF last'.allowNull THEN RetVoid
                                                ELSE Throw(ErrNotFound(last'.id)))]_vars

\* C6 (as claimed): with a generator configured, get(id, allowNull) for an id
\* that is not in the store gives what missing(id) gives, for both values of
\* allowNull, never the not-found error and never undefined; for an id that is
\* in the store it returns the stored driver without calling the generator.
C6_GetWithGenerator ==
    [][(last'.op = "get" /\ gen.kind # "none")
       => IF last'.id \in OwnKeys(drivers)
          THEN /\ last'.result = RetObj(OwnValue(drivers, last'.id))
               /\ last'.calls = << >>
               /\ gen' = gen
          ELSE /\ last'.result = GenMissing(gen', fnOverlayTpl', last'.id).result
               /\ last'.result # RetVoid
               /\ last'.result # Throw(ErrNotFound(last'.id))]_vars

\* C7: every driver produced by missing-driver synthesis (by get on an absent
\* id or by missing(id)) has id 'missing', whatever id the generator returned
\* and whatever id was requested.
C7_SynthesizedIdIsMissing ==
    Synthesized => last.result.obj["id"] = Str("missing")

\* C7 witness: get('foo') returned a driver synthesized by a generator whose
\* field set carries the id 'my-missing-driver'.
C7_Witness ==
    /\ Synthesized
    /\ last.op = "get"
    /\ last.id = "foo"
    /\ gen.kind = "notImpl"
    /\ GeneratorCall(gen, last.id)["id"] = Str("my-missing-driver")

\* the generator functions that build a new field set on every call
FreshKinds == {"byId", "override", "notImpl"}

\* C8: for a generator that returns a fresh field set on each call, the driver
\* returned by get(id) for an absent id carries the generator's fields computed
\* from that call's id, and every field the overlay filled in fails, when
\* invoked, with "Cannot call f() - driver '<id>' is missing" for that id.
C8_FreshGeneratorUsesCallId ==
    (Synthesized /\ last.op = "get" /\ gen.kind \in FreshKinds)
    => /\ last.result.obj["name"] = Str("Missing Driver: " \o last.id)
       /\ \A f \in DOMAIN fnOverlayTpl :
             ~Has(GeneratorCall(gen, last.id), f)
             => /\ Has(last.result.obj, f)
                /\ Invoke(last.result.obj[f]) =
                      [how |-> IF fnOverlayTpl[f] = "async" THEN "rejects" ELSE "throws",
                       msg |-> notImplemented(last.id, f)]

\* C8 witness: get('bar') returned a synthesized driver with overlay-filled
\* stand-ins under the id-sensitive generator.
C8_Witness ==
    /\ Synthesized
    /\ last.op = "get"
    /\ last.id = "bar"
    /\ gen.kind = "byId"
    /\ last.result.obj["requiredAsyncFn"] = makeAsync("requiredAsyncFn", "bar")
    /\ last.result.obj["syncFn"] = makeSync("syncFn", "bar")

\* C9 (as claimed): with the generator configured as `true`, every stand-in
\* field of the driver returned by get(id) for an absent id fails with the
\* message naming the id of that call.
C9_TrueGeneratorUsesCallId ==
    (Synthesized /\ last.op = "get" /\ gen.kind = "true")
    => \A f \in DOMAIN fnOverlayTpl :
          /\ Has(last.result.obj, f)
          /\ Invoke(last.result.obj[f]).msg = notImplemented(last.id, f)

\* C10: the Function Overlay Template holds a field exactly when the schema
\* field is function-typed, has a default or is required, and is not
\* forbidden; so a synthesized driver has an optional function field without
\* default only when the generator supplied it, and a forbidden function field
\* never holds a stand-in.
C10_TemplateFields ==
    /\ DOMAIN fnOverlayTpl =
          {Schema[i].key : i \in {j \in 1..Len(Schema) :
              /\ Schema[j].type = "func"
              /\ (Schema[j].default # "none" \/ Schema[j].presence = "required")
              /\ Schema[j].presence # "forbidden"}}
    /\ Synthesized =>
          \A i \in 1..Len(Schema) :
             /\ (/\ Schema[i].type = "func"
                 /\ Schema[i].presence = "optional"
                 /\ Schema[i].default = "none"
                 /\ Has(last.result.obj, Schema[i].key))
                => Has(GeneratorCall(gen, last.id), Schema[i].key)
             /\ (/\ Schema[i].type = "func"
                 /\ Schema[i].presence = "forbidden"
                 /\ Has(last.result.obj, Schema[i].key))
                => last.result.obj[Schema[i].key].t \notin {"standinSync", "standinAsync"}

\* C10 witness: under the 'missing driver' suite's schema a synthesized driver
\* has the defaulted and required function fields, lacks the optional ones and
\* keeps the schema default of the forbidden one.
C10_Witness ==
    /\ schemaName = "full"
    /\ Synthesized
    /\ gen.kind = "byId"
    /\ DOMAIN fnOverlayTpl =
          {"syncFn", "asyncFn", "requiredSyncFn", "requiredAsyncFn", "taggedAsyncFn"}
    /\ ~Has(last.result.obj, "optionalSyncFn")
    /\ ~Has(last.result.obj, "optionalAsyncFn")
    /\ last.result.obj["expandFn"] = DefaultValue(Schema[10])

\* the stand-in values makeAsync and makeSync produce
StandInTypes == {"standinSync", "standinAsync"}

\* C11: every field of the Function Overlay Template has an asynchronous
\* stand-in exactly when the schema field's default is an asynchronous function
\* or the field is tagged 'async', and a synchronous stand-in that throws when
\* called otherwise; the stand-ins found on synthesized drivers are of that kind.
C11_StandInKind ==
    \A i \in 1..Len(Schema) :
       Schema[i].key \in DOMAIN fnOverlayTpl
       => /\ (fnOverlayTpl[Schema[i].key] = "async")
                <=> (Schema[i].default = "async" \/ "async" \in Schema[i].tags)
          /\ fnOverlayTpl[Schema[i].key] \in {"async", "sync"}
          /\ (/\ Synthesized
              /\ last.result.obj[Schema[i].key].t \in StandInTypes)
             => /\ (last.result.obj[Schema[i].key].t = "standinAsync")
                      <=> (Schema[i].default = "async" \/ "async" \in Schema[i].tags)
                /\ Invoke(last.result.obj[Schema[i].key]).how =
                      IF Schema[i].default = "async" \/ "async" \in Schema[i].tags
                      THEN "rejects" ELSE "throws"

\* C11 witness: a synthesized driver whose field with a synchronous default and
\* the 'async' tag, and whose required field with the 'async' tag, hold
\* asynchronous stand-ins, while the untagged required field holds a
\* synchronous one.
C11_Witness ==
    /\ schemaName = "full"
    /\ Synthesized
    /\ last.result.obj["taggedAsyncFn"].t = "standinAsync"
    /\ last.result.obj["requiredAsyncFn"].t = "standinAsync"
    /\ last.result.obj["asyncFn"].t = "standinAsync"
    /\ last.result.obj["requiredSyncFn"].t = "standinSync"
    /\ last.result.obj["syncFn"].t = "standinSync"

\* the call in last is the call of an asynchronous stand-in
AsyncStandInCalled(c) ==
    /\ c.op = "invoke"
    /\ \E f \in DOMAIN c.arg : c.arg[f].t = "standinAsync"

\* the job a call of the asynchronous stand-in for field f and id queues
StandInJob(id, f) == [how |-> "rejects", msg |-> notImplemented(id, f)]

\* C12: the call of an asynchronous stand-in never throws synchronously; it
\* returns a promise, the registry is as before the call, and the promise
\* eventually settles, always as a failure whose message is
\* "Cannot call <field>() - driver '<id>' is missing".
C12_AsyncStandInSettlesAsFailure ==
    /\ [][AsyncStandInCalled(last')
          => /\ last'.result = Ret("value", Promise, NoObj)
             /\ <<schemaName, fnOverlayTpl, drivers, gen>>' = <<schemaName, fnOverlayTpl, drivers, gen>>
             /\ \E f \in DOMAIN last'.arg :
                   jobs' = Append(jobs, StandInJob(last'.arg[f].b, f))]_vars
    /\ [][(last'.op = "settle" /\ jobs # << >> /\ Head(jobs).how = "rejects")
          => /\ last'.result = Throw(Head(jobs).msg)
             /\ <<schemaName, fnOverlayTpl, drivers, gen>>' = <<schemaName, fnOverlayTpl, drivers, gen>>]_vars
    /\ \A id \in CallIds, f \in InvokeFields :
          (\E i \in 1..Len(jobs) : jobs[i] = StandInJob(id, f))
             ~> (last.op = "settle" /\ last.result = Throw(notImplemented(id, f)))

\* C12 witness: the promise returned by requiredAsyncFn of the driver
\* synthesized for 'foo' has settled as a failure with the stand-in's message.
C12_Witness ==
    /\ last.op = "settle"
    /\ last.result = Throw("Cannot call requiredAsyncFn() - driver 'foo' is missing")
    /\ jobs = << >>

\* C13: when the field set the generator returned already holds a field of the
\* Function Overlay Template, the synthesized driver carries the generator's
\* value for it; the overlay fills only the template fields the generator
\* left absent, with the stand-in for the requested id.
C13_GeneratorValueWins ==
    [][(last'.op \in {"get", "missing"} /\ Synthesized')
       => \A f \in DOMAIN fnOverlayTpl :
             /\ Has(last'.result.obj, f)
             /\ last'.result.obj[f] =
                   IF Has(GeneratorCall(gen, last'.id), f)
                   THEN GeneratorCall(gen, last'.id)[f]
                   ELSE MakeFn(f, fnOverlayTpl[f], last'.id)]_vars

\* C13 witness: the generator supplied syncFn, a field of the template; the
\* driver synthesized for 'foo' carries that function, and a stand-in for
\* asyncFn, which the generator left absent.
C13_Witness ==
    /\ Synthesized
    /\ last.op = "get"
    /\ last.id = "foo"
    /\ gen.kind = "override"
    /\ "syncFn" \in DOMAIN fnOverlayTpl
    /\ last.result.obj["syncFn"] = UserFn("sync", "custom", "syncFn")
    /\ Invoke(last.result.obj["syncFn"]).msg = "My custom error"
    /\ last.result.obj["asyncFn"] = makeAsync("asyncFn", "foo")

\* C14 (as claimed): the assignment of a generator while a driver with id
\* 'missing' is stored fails with "Cannot configure a default 'missing' driver
\* when a driver with that id has already been added" and the registry stays
\* without a generator; add of a driver with id 'missing' while a generator is
\* configured fails, leaves store and generator as they were and emits no
\* 'add' notification.
C14_MissingIdConflicts ==
    [][/\ (/\ last'.op = "setMissing"
           /\ last'.mval \in GenKinds
           /\ "missing" \in OwnKeys(drivers))
          => /\ last'.result = Throw(ErrLateGenerator)
             /\ gen'.kind = "none"
       /\ (/\ ValidAddStep
           /\ IdOf(last'.arg) = "missing"
           /\ gen.kind # "none")
          => /\ last'.result.kind = "throw"
             /\ drivers' = drivers
             /\ gen' = gen
             /\ last'.emitted = << >>]_vars

\* C15 (as claimed): remove('missing') fails with an error in every reachable
\* state, with or without a generator and with or without a stored driver
\* 'missing'; it leaves the store unchanged and emits no 'remove' notification.
C15_RemoveMissingAlwaysFails ==
    [][(last'.op = "remove" /\ last'.id = "missing")
       => /\ last'.result.kind = "throw"
          /\ drivers' = drivers
          /\ last'.emitted = << >>]_vars

\* C16 (as claimed): remove(id) for a stored id other than 'missing' emits
\* exactly one 'remove' notification carrying the stored driver while that
\* driver is still in the store, then deletes it, so that exists(id) is false
\* and every other entry is as before; remove(id) for an absent id emits
\* nothing, changes nothing and does not throw.
C16_RemoveStoredOrAbsent ==
    [][(last'.op = "remove" /\ last'.id # "missing")
       => IF last'.id \in OwnKeys(drivers)
          THEN /\ last'.result = RetVoid
               /\ last'.emitted = << Emit("remove", OwnValue(drivers, last'.id), drivers) >>
               /\ last'.id \in OwnKeys(last'.emitted[1].store)
               /\ Exists(drivers', last'.id) = "false"
               /\ OwnKeys(drivers') = OwnKeys(drivers) \ {last'.id}
               /\ \A k \in OwnKeys(drivers') : OwnValue(drivers', k) = OwnValue(drivers, k)
               /\ drivers'.proto = drivers.proto
          ELSE /\ last'.result = RetVoid
               /\ last'.emitted = << >>
               /\ drivers' = drivers]_vars

\* C17: after removeAll, keys() and all() are empty and exists(id) is false
\* for every id; each call emits exactly one 'removeAll' notification, also on
\* an empty store, emitted when the store is already cleared; the generator is
\* as before.
C17_RemoveAllClears ==
    [][last'.op = "removeAll"
       => /\ ObjectKeys(drivers') = << >>
          /\ Values(drivers') = << >>
          /\ \A id \in GetIds \cup ObjectPrototypeNames : Exists(drivers', id) = "false"
          /\ Len(last'.emitted) = 1
          /\ last'.emitted[1].ev = "removeAll"
          /\ ObjectKeys(last'.emitted[1].store) = << >>
          /\ last'.result = RetVoid
          /\ gen' = gen]_vars

\* C17 witness: removeAll has emptied the store of a registry whose `true`
\* generator had already synthesized a driver; the generator is still there.
C17_Witness ==
    /\ last.op = "removeAll"
    /\ last.emitted = << Emit("removeAll", NoObj, EmptyStore) >>
    /\ drivers = EmptyStore
    /\ gen.kind = "true"
    /\ gen.shared # NoObj

\* the ids and the drivers of the store in the order they were added
InsertionKeys(d) == [i \in 1..Len(d.own) |-> d.own[i].k]

InsertionValues(d) == [i \in 1..Len(d.own) |-> d.own[i].v]

\* C18 (as claimed): keys() returns exactly the stored ids in the order in
\* which they were added, also for ids that are numeric strings added in
\* descending order, and all() returns the stored drivers in that same order.
C18_KeysInInsertionOrder ==
    /\ ObjectKeys(drivers) = InsertionKeys(drivers)
    /\ Values(drivers) = InsertionValues(drivers)
    /\ last.op = "keys" => last.result = RetList(StrList(InsertionKeys(drivers)))
    /\ last.op = "all" => last.result = RetList(InsertionValues(drivers))

\* element i of the batch is in the store with its validated form
StoredFrom(d, batch, i) ==
    /\ IdOf(batch[i]) \in OwnKeys(d)
    /\ OwnValue(d, IdOf(batch[i])) = Validated(batch[i])

\* the errors add can throw for a driver
AddErrors(driver) ==
    IF JoiValidate(Schema, driver).ok
    THEN {ErrReserved, ErrDuplicate(IdOf(driver)), ErrHasOwn}
    ELSE {ErrValidation(JoiValidate(Schema, driver).err)}

\* addAll threw at element k: the elements before k were added and notified,
\* element k and the later ones were not stored
FailedAt(d, dAfter, c, k) ==
    /\ c.result.what \in AddErrors(c.batch[k])
    /\ Len(c.emitted) = k - 1
    /\ \A i \in 1..(k - 1) :
          /\ StoredFrom(dAfter, c.batch, i)
          /\ c.emitted[i].ev = "add"
          /\ c.emitted[i].obj = Validated(c.batch[i])
    /\ Len(dAfter.own) = Len(d.own) + (k - 1)
    /\ dAfter.proto = d.proto

\* C19 (as claimed): addAll applies add to the elements in order; when all
\* succeed it returns the validated drivers in the order and length of the
\* input and all of them are stored; when element k fails the call throws
\* that error, the elements before k stay stored with their 'add'
\* notifications emitted, and element k and the later ones are not stored.
C19_AddAllInOrder ==
    [][last'.op = "addAll"
       => IF last'.result.kind = "return"
          THEN /\ Len(last'.result.list) = Len(last'.batch)
               /\ Len(last'.emitted) = Len(last'.batch)
               /\ \A i \in 1..Len(last'.batch) :
                     /\ last'.result.list[i] = Validated(last'.batch[i])
                     /\ last'.emitted[i].obj = Validated(last'.batch[i])
                     /\ StoredFrom(drivers', last'.batch, i)
          ELSE \E k \in 1..Len(last'.batch) : FailedAt(drivers, drivers', last', k)]_vars

\* C20 (as claimed): after one successful assignment to `missing` (by the
\* constructor or the setter) a later assignment does not replace the
\* generator: get for an absent id answers as before the assignment.
C20_GeneratorSetOnce ==
    [][(last'.op = "setMissing" /\ gen.kind # "none")
       => /\ gen' = gen
          /\ \A id \in CallIds :
                GetOutcome(drivers', gen', fnOverlayTpl', id, FALSE).out.result
                   = GetOutcome(drivers, gen, fnOverlayTpl, id, FALSE).out.result]_vars

\* how often hook fn was called during call c
HookCount(c, fn) == Cardinality({i \in 1..Len(c.calls) : c.calls[i] = fn})

\* the value validate checks against the schema for a given driver
Checkable(driver) == IF host.before = "replace" THEN Renamed(driver) ELSE driver

\* call c ran the validate pipeline once on driver
PipelineRanOnce(c, driver) ==
    /\ HookCount(c, "beforeValidate") = 1
    /\ c.calls[1] = "beforeValidate"
    /\ IF JoiValidate(Schema, Checkable(driver)).ok
       THEN /\ c.calls = <<"beforeValidate", "afterValidate">>
            /\ (c.result.kind = "return" /\ host.after = "marks")
               => c.result.obj = Put(Validated(Checkable(driver)), "checked", Checked)
            /\ (c.result.kind = "return" /\ host.after # "marks")
               => c.result.obj = Validated(Checkable(driver))
       ELSE /\ c.calls = <<"beforeValidate">>
            /\ c.result = Throw(ErrValidation(JoiValidate(Schema, Checkable(driver)).err))

\* C21: validate calls beforeValidate exactly once and first; a value it
\* returns is validated in place of the driver; afterValidate is called exactly
\* once, only after schema validation succeeded, with the validated result, and
\* what it returns does not change what validate returns; the pipeline runs
\* once in every add and once in every synthesis performed by get.
C21_ValidatePipeline ==
    [][/\ last'.op = "add" => PipelineRanOnce(last', last'.arg)
       /\ (last'.op = "get" /\ gen.kind # "none" /\ Exists(drivers, last'.id) = "false")
          => PipelineRanOnce(last', MissingObject(gen, fnOverlayTpl, last'.id))
       /\ (last'.op = "get" /\ ~(gen.kind # "none" /\ Exists(drivers, last'.id) = "false"))
          => last'.calls = << >>]_vars

\* C21 witness: under a subclass whose beforeValidate returns a renamed copy
\* and whose afterValidate writes to its argument, add of driver 'foo'
\* returned the validated renamed copy carrying what afterValidate wrote.
C21_Witness ==
    /\ host.before = "replace"
    /\ host.after = "marks"
    /\ last.op = "add"
    /\ last.arg = ValidDriver("foo")
    /\ last.calls = <<"beforeValidate", "afterValidate">>
    /\ last.result.kind = "return"
    /\ last.result.obj["id"] = Str("bar")
    /\ last.result.obj["checked"] = Checked

\* C22 (as claimed): every successful add emits exactly one 'add' notification
\* carrying the validated driver that was stored, emitted when the driver is
\* in the store (a listener finds exists(id) true and get(id) returning that
\* driver), and add returns that same validated driver.
C22_AddEmitsAfterStore ==
    [][(last'.op = "add" /\ last'.result.kind = "return")
       => /\ Len(last'.emitted) = 1
          /\ last'.emitted[1].ev = "add"
          /\ last'.emitted[1].obj = Validated(last'.arg)
          /\ last'.result = RetObj(last'.emitted[1].obj)
          /\ Exists(last'.emitted[1].store, IdOf(last'.arg)) = "true"
          /\ GetOutcome(last'.emitted[1].store, gen, fnOverlayTpl, IdOf(last'.arg), FALSE).out.result
                = RetObj(last'.emitted[1].obj)]_vars

\* the entries of a sequence of [k, v] pairs as a set
EntrySet(entries) == {entries[i] : i \in 1..Len(entries)}

\* C23: get() without argument returns a copy of the id -> driver mapping
\* holding exactly the stored entries; adding, replacing or deleting keys on
\* the returned mapping changes nothing of what exists, keys, all and later
\* get calls report.
C23_GetAllReturnsCopy ==
    /\ [][last'.op = "getAll"
          => /\ EntrySet(last'.result.list) = EntrySet(drivers.own)
             /\ Len(last'.result.list) = Len(drivers.own)
             /\ drivers' = drivers]_vars
    /\ [][last'.op \in {"copyPut", "copyDelete"}
          => /\ ObjectKeys(drivers') = ObjectKeys(drivers)
             /\ Values(drivers') = Values(drivers)
             /\ \A id \in GetIds : Exists(drivers', id) = Exists(drivers, id)
             /\ \A id \in GetIds, a \in BOOLEAN :
                   GetOutcome(drivers', gen', fnOverlayTpl', id, a).out.result
                      = GetOutcome(drivers, gen, fnOverlayTpl, id, a).out.result
             /\ Clone(drivers') = Clone(drivers)]_vars

\* C23 witness: the caller deleted 'foo' from the mapping get() returned and
\* 'foo' is still stored.
C23_Witness ==
    /\ last.op = "copyDelete"
    /\ last.id = "foo"
    /\ \A i \in 1..Len(last.result.list) : last.result.list[i].k # "foo"
    /\ Exists(drivers, "foo") = "true"

\* the field set synthesis hands to validation for a requested id fails the
\* schema
SynthesisInvalid(g, tpl, id) == ~JoiValidate(Schema, MissingObject(g, tpl, id)).ok

\* C24 (as claimed): when the field set produced by synthesis fails schema
\* validation, get(absentId, allowNull) fails with the validation error for
\* both values of allowNull, returns no driver, and leaves the store unchanged.
C24_SynthesisFailurePropagates ==
    [][(/\ last'.op = "get"
        /\ gen.kind # "none"
        /\ last'.id \notin OwnKeys(drivers)
        /\ SynthesisInvalid(gen, fnOverlayTpl, last'.id))
       => (/\ last'.result
                = Throw(ErrValidation(JoiValidate(Schema, MissingObject(gen, fnOverlayTpl, last'.id)).err))
           /\ drivers' = drivers)]_vars

\* the operations that only read the registry
ReadOps == {"get", "getAll", "exists", "keys", "all", "missing"}

\* C25: get (with or without arguments, with or without a generator), exists,
\* keys, all and missing(id) never change the store and never emit a
\* notification; a synthesized driver is never stored: after a get that
\* synthesized a driver for an absent id, exists(id) and exists('missing') are
\* false and keys() is unchanged.
C25_ReadsLeaveStore ==
    /\ [][last'.op \in ReadOps
          => /\ drivers' = drivers
             /\ last'.emitted = << >>
             /\ ObjectKeys(drivers') = ObjectKeys(drivers)
             /\ \A id \in GetIds : Exists(drivers', id) = Exists(drivers, id)]_vars
    /\ [][(last'.op = "get" /\ Synthesized')
          => /\ Exists(drivers', last'.id) = "false"
             /\ Exists(drivers', "missing") = "false"
             /\ last'.result.obj \notin {OwnValue(drivers', k) : k \in OwnKeys(drivers')}]_vars

\* C25 witness: get('foo') handed out a synthesized driver while another
\* driver is stored.
C25_Witness ==
    /\ last.op = "get"
    /\ last.id = "foo"
    /\ Synthesized
    /\ Exists(drivers, "bar") = "true"
    /\ Exists(drivers, "foo") = "false"

\* the two hooks, called in this order
BothHooks == << "beforeValidate", "afterValidate" >>

\* C26: add runs beforeValidate, schema validation, afterValidate, the
\* reserved-id check, the duplicate check, the store and the 'add'
\* notification in this order: an add rejected as duplicate or reserved has
\* called afterValidate; an invalid driver fails with the validation error even
\* if its id is stored; a valid driver with id 'missing' added while a
\* generator is configured fails with the reserved-id error, never the
\* duplicate error; the store is written before the notification.
C26_AddStepOrder ==
    [][last'.op = "add"
       => /\ last'.calls[1] = "beforeValidate"
          /\ (/\ last'.result.kind = "throw"
              /\ last'.result.what \in {ErrReserved} \cup {ErrDuplicate(id) : id \in AddIds \cup NumericIds})
                => (last'.calls = BothHooks /\ JoiValidate(Schema, last'.arg).ok)
          /\ ~JoiValidate(Schema, last'.arg).ok
                => /\ last'.result = Throw(ErrValidation(JoiValidate(Schema, last'.arg).err))
                   /\ last'.calls = << "beforeValidate" >>
          /\ (JoiValidate(Schema, last'.arg).ok /\ gen.kind # "none" /\ IdOf(last'.arg) = "missing")
                => /\ last'.result = Throw(ErrReserved)
                   /\ last'.calls = BothHooks
          /\ last'.result.kind = "return"
                => /\ last'.calls = BothHooks
                   /\ ~IsReservedId(gen, IdOf(last'.arg))
                   /\ Exists(drivers, IdOf(last'.arg)) = "false"
                   /\ Len(last'.emitted) = 1
                   /\ last'.emitted[1].store = drivers'
                   /\ drivers' = SetProp(drivers, IdOf(last'.arg), last'.result.obj)]_vars

\* C26 witness: a driver that is invalid and whose id is stored was rejected
\* with the validation error.
C26_Witness ==
    /\ last.op = "add"
    /\ last.arg = InvalidDriver("foo")
    /\ Exists(drivers, "foo") = "true"
    /\ last.result.kind = "throw"
    /\ last.result # Throw(ErrDuplicate("foo"))

\* a step of add whose argument carries the id 'missing'
AddsMissingId == last'.op = "add" /\ Has(last'.arg, "id") /\ IdOf(last'.arg) = "missing"

\* C27: with no generator configured a stored driver 'missing' cannot be taken
\* out by remove: remove('missing') throws and the store stays as it was; only
\* removeAll takes the key 'missing' out of the store; on the emptied store the
\* assignment of a generator succeeds, and from then on a generator stays
\* configured and every add of id 'missing' is rejected.
C27_MissingDriverLeavesOnlyByRemoveAll ==
    /\ [][(last'.op = "remove" /\ last'.id = "missing")
          => /\ last'.result = Throw(ErrRemoveMissing)
             /\ last'.emitted = << >>
             /\ drivers' = drivers]_vars
    /\ [][("missing" \in OwnKeys(drivers) /\ "missing" \notin OwnKeys(drivers'))
          => (last'.op = "removeAll" /\ gen.kind = "none")]_vars
    /\ [][last'.op = "removeAll" => drivers' = EmptyStore]_vars
    /\ [][(last'.op = "setMissing" /\ last'.mval \in GenKinds /\ drivers = EmptyStore)
          => /\ last'.result = RetVoid
             /\ gen'.kind = last'.mval]_vars
    /\ [][gen.kind # "none"
          => /\ gen'.kind # "none"
             /\ AddsMissingId
                   => /\ last'.result.kind = "throw"
                      /\ JoiValidate(Schema, last'.arg).ok => last'.result = Throw(ErrReserved)
                      /\ drivers' = drivers]_vars

\* C27 witness: remove('missing') was refused on a registry without generator
\* that stores a driver with id 'missing'.
C27_Witness ==
    /\ last.op = "remove"
    /\ last.id = "missing"
    /\ gen.kind = "none"
    /\ Exists(drivers, "missing") = "true"
    /\ last.result = Throw(ErrRemoveMissing)

\* the id of the driver an 'add' or 'remove' notification of call c carried
NotifiedId(c) == c.emitted[1].obj["id"].a

\* C28 (as claimed): when a notification listener throws, the error reaches
\* the caller and the driver is in the store: for add it was stored before the
\* 'add' notification, so exists(id) is true and the same add again fails as
\* duplicate; for remove the deletion is not reached, so exists(id) is still
\* true.
C28_ListenerThrows ==
    [][(host.listener = "throws" /\ last'.emitted # << >>)
       => /\ last'.result = Throw(ErrListener)
          /\ last'.op = "add"
                => /\ Exists(drivers', NotifiedId(last')) = "true"
                   /\ OwnValue(drivers', NotifiedId(last')) = last'.emitted[1].obj
                   /\ AddOutcome(drivers', gen', last'.arg).result
                         = Throw(ErrDuplicate(NotifiedId(last')))
          /\ last'.op = "remove"
                => /\ drivers' = drivers
                   /\ Exists(drivers', last'.id) = "true"]_vars

====
